---- MODULE Spec2Model ----
(***************************************************************************)
(* State-machine model of the rare.fi contracts.                           *)
(*                                                                         *)
(* AlphaYieldFactory (the vault): a deposit of the underlying asset        *)
(* (ALPHA) is split into a principal token (PT) and a yield token (YT);    *)
(* PT+YT redeem the underlying before maturity, PT alone after it, and YT  *)
(* claims a pro-rata share of the contract's USDC after maturity.          *)
(*                                                                         *)
(* P2PDualOrder (the order book): an account escrows PT or YT in one of    *)
(* its two order slots at a price per unit; buyers fill an order in parts, *)
(* paying ALPHA for PT and USDC for YT; the seller or the admin cancels    *)
(* what is left.                                                           *)
(*                                                                         *)
(* Every call is one atomic step: a call whose asserts, staged group       *)
(* transfers and inner transfers all succeed commits; any other call is    *)
(* rejected and leaves the ledger and the global state as they were.  The  *)
(* variable `last' names the most recent committed value-moving call since *)
(* the clock last advanced; what a call would do in a state is the         *)
(* handler's operator                                                      *)
(* (mintTokens, redeemTokens, ...) evaluated in that state.                *)
(*                                                                         *)
(* Three specifications share the variables: Spec runs the vault, BookSpec *)
(* the order book, and MulDivSpec one mulDivFloor call on bounded inputs.  *)
(***************************************************************************)
EXTENDS Integers, Sequences, FiniteSets, TLC

(***************************************************************************)
(* Program constants (src/AlphaYieldFactory.algo.ts:19-23).                *)
(***************************************************************************)
MINT_FEE_BPS == 50
EARLY_REDEEM_FEE_BPS == 150
BPS_DIVISOR == 10000
MIN_DEPOSIT_UNITS == 1000000
THIRTY_DAYS_SEC == 2592000

(***************************************************************************)
(* Program constants (src/P2PDualOrder.algo.ts:20-31).  BPS_DIVISOR is the *)
(* same 10000 in both contracts.                                           *)
(***************************************************************************)
PLATFORM_FEE_BPS == 50
ONE_YEAR_SECONDS == 31536000
MIN_ORDER_UNITS == 1000000
ORDER_TYPE_PT == 0
ORDER_TYPE_YT == 1
ORDER_SLOT_1 == 1
ORDER_SLOT_2 == 2

(***************************************************************************)
(* Bounds of the model.                                                    *)
(*   WordBits    width of the native unsigned word.  The AVM's is 64; the  *)
(*               model's is narrower, to stay within TLC's integers, and   *)
(*               every amount of the bounded model lies far below it.      *)
(*   UserAlpha   underlying units alice starts with; bob starts with half. *)
(*   TokenSupply total supply of PT and of YT, all held by the contract    *)
(*               after bootstrap.                                          *)
(*   YieldFund   USDC units the creator can pay into the contract.         *)
(*   MaxMints    cap on the number of successful mints.                    *)
(*   SellerPt    PT units alice brings to the order book.                  *)
(*   SellerYt    YT units alice brings to the order book.                  *)
(*   BuyerAlpha  underlying units bob brings to the order book.            *)
(*   BuyerUsdc   USDC units bob brings to the order book.                  *)
(*   MaxOrders   cap on the number of successful createOrder calls.        *)
(*   MaxWithdrawals  cap on the number of successful withdrawFunds calls.  *)
(*   SmallBits   width of the word at which mulDivFloor is applied to      *)
(*               every triple of words.                                    *)
(***************************************************************************)
WordBits == 29
UserAlpha == 2030000
TokenSupply == 2500000
YieldFund == 10
MaxMints == 2
SellerPt == 4000000
SellerYt == 3000000
BuyerAlpha == 1500000
BuyerUsdc == 3
MaxOrders == 2
MaxWithdrawals == 1
SmallBits == 4

Word == 2 ^ WordBits

(***************************************************************************)
(* createApplication's arguments and what it stores.                       *)
(***************************************************************************)
StartMint == 10
MintEnd == 20
Maturity == 30

\* Global.creatorAddress: the account that deployed the application.
creatorAddress == "creator"
\* this.creator.value, set once by createApplication.
creator == creatorAddress
App == "app"
Users == {"alice", "bob"}
Accounts == {creatorAddress} \cup Users

\* The order book: its application address, the admin its createApplication
\* stores (Global.creatorAddress, never reassigned), the time of its
\* deployment and the withdrawal time computed from it.
Book == "book"
emergencyAdmin == creatorAddress
BookDeploy == 0
withdrawalTimestamp == BookDeploy + ONE_YEAR_SECONDS

Holders == Accounts \cup {App, Book}

ALPHA == "ALPHA"
PT == "PT"
YT == "YT"
USDC == "USDC"
Assets == {ALPHA, PT, YT, USDC}

VARIABLES
  now,               \* Global.latestTimestamp
  totalAlphaLocked,  \* GlobalState totalAlphaLocked
  isPaused,          \* GlobalState isPaused
  bal,               \* ledger: bal[asset][holder]
  last,              \* the latest committed value-moving call: op, caller, amount, time
  mints,             \* number of successful mints so far
  ptMinted,          \* total PT handed out by mintTokens
  ptReturned,        \* total PT returned through redeemTokens / redeemPtMature
  matureSeen,        \* a redeemPtMature or claimYtYield has succeeded
  shares,            \* per escrow amount: the shares paid to the latest claim
                     \* (latest) and to the one before it (prev) since the
                     \* last USDC inflow (0: none)
  swept,             \* withdrawAllBalances has succeeded
  orders,            \* LocalState: orders[account][slot], the five keys of a slot
  bookLast,          \* the latest committed order-book call: op, caller, seller,
                     \* slot, and the fills in a row it completes
  created,           \* number of successful createOrder calls so far
  withdrawn,         \* number of successful withdrawFunds calls so far
  md                 \* a mulDivFloor call: the word size, n1, n2, d and, once
                     \* it has run, its outcome

bookVars == <<orders, bookLast, created, withdrawn>>

mathVars == <<md>>

vars == <<now, totalAlphaLocked, isPaused, bal, last, mints, ptMinted,
          ptReturned, matureSeen, shares, swept, orders, bookLast, created,
          withdrawn, md>>

(***************************************************************************)
(* Native arithmetic.  mulw gives the double-width product as two words,   *)
(* divmodw divides a double-width value by a double-width divisor.  Both   *)
(* are exact for every pair of words of a width w that is a power of two   *)
(* up to 2^30: where the double-width value fits TLC's integers it is      *)
(* formed directly, elsewhere digit by digit.                              *)
(***************************************************************************)
\* a * b as two words; beyond TLC's integers from the four partial
\* products of the 15-bit halves of a and b.
mulw(w, a, b) ==
  IF a = 0 \/ b <= 2147483647 \div a
  THEN [hi |-> (a * b) \div w, lo |-> (a * b) % w]
  ELSE LET H  == 32768
           t0 == (a % H) * (b % H)
           t1 == (a \div H) * (b % H) + (a % H) * (b \div H) + (t0 \div H)
           t2 == (a \div H) * (b \div H) + (t1 \div H)
           \* a * b = t2 * 2^30 + low
           low == (t1 % H) * H + (t0 % H)
       IN  [hi |-> t2 * ((H * H) \div w) + (low \div w), lo |-> low % w]

\* The digit base of a division by (0, dlo): the remainder times the base
\* stays within TLC's integers.
DigitBase(w, dlo) ==
  IF dlo <= 32768 /\ w >= 32768 THEN 32768
  ELSE IF dlo <= 8388608 /\ w >= 256 THEN 256
  ELSE 2

\* (hi, lo) divided by (dhi, dlo); beyond TLC's integers digit by digit:
\* with n = B*m + e and m = q*d + r, n = (B*q)*d + (B*r + e).  For a
\* double-width divisor the digits are bits, and one subtraction of d
\* restores the remainder.
RECURSIVE divmodw(_, _, _, _, _)
divmodw(w, hi, lo, dhi, dlo) ==
  IF dhi = 0 /\ hi <= (2147483647 - lo) \div w
  THEN LET n == hi * w + lo
           d == dlo
       IN  [q_hi |-> (n \div d) \div w, q_lo |-> (n \div d) % w,
            r_hi |-> (n % d) \div w,   r_lo |-> (n % d) % w]
  ELSE IF hi < dhi
  THEN [q_hi |-> 0, q_lo |-> 0, r_hi |-> hi, r_lo |-> lo]
  ELSE IF dhi = 0
  THEN LET B  == DigitBase(w, dlo)
           h  == divmodw(w, hi \div B, (lo \div B) + (hi % B) * (w \div B),
                         0, dlo)
           r  == B * h.r_lo + (lo % B)
       IN  [q_hi |-> B * h.q_hi + (h.q_lo \div (w \div B)),
            q_lo |-> B * (h.q_lo % (w \div B)) + (r \div dlo),
            r_hi |-> 0,
            r_lo |-> r % dlo]
  ELSE LET h    == divmodw(w, hi \div 2,
                           (lo \div 2) + (hi % 2) * (w \div 2), dhi, dlo)
           rlo2 == 2 * h.r_lo + (lo % 2)
           rhi  == 2 * h.r_hi + (rlo2 \div w)
           rlo  == rlo2 % w
           ge   == rhi > dhi \/ (rhi = dhi /\ rlo >= dlo)
           brw  == IF rlo < dlo THEN 1 ELSE 0
           qlo2 == 2 * h.q_lo + (IF ge THEN 1 ELSE 0)
       IN  [q_hi |-> 2 * h.q_hi + (qlo2 \div w),
            q_lo |-> qlo2 % w,
            r_hi |-> IF ge THEN rhi - dhi - brw ELSE rhi,
            r_lo |-> IF ge THEN (rlo + brw * w) - dlo ELSE rlo]

\* mulDivFloor without its assert: the low word of the quotient.
mulDivFloorLowWord(w, n1, n2, d) ==
  IF d = 0 THEN [ok |-> FALSE, q |-> 0]
  ELSE LET p == mulw(w, n1, n2)
       IN  [ok |-> TRUE, q |-> divmodw(w, p.hi, p.lo, 0, d).q_lo]

\* mulDivFloor at word size w: ok is the assert q_hi === 0 (and d # 0, on
\* which divmodw itself fails); q is the returned q_lo.
mulDivFloorAt(w, n1, n2, d) ==
  IF d = 0 THEN [ok |-> FALSE, q |-> 0]
  ELSE LET p == mulw(w, n1, n2)
           r == divmodw(w, p.hi, p.lo, 0, d)
       IN  [ok |-> r.q_hi = 0, q |-> r.q_lo]

mulDivFloorCeil(n1, n2, d) ==
  IF d = 0 THEN [ok |-> FALSE, q |-> 0]
  ELSE [ok |-> TRUE, q |-> (n1 * n2 + d - 1) \div d]

mulDivFloor(n1, n2, d) == mulDivFloorAt(Word, n1, n2, d)

(***************************************************************************)
(* The ledger: asset transfers.                                            *)
(***************************************************************************)
Xfer(asset, from, to, amt) ==
  [asset |-> asset, sender |-> from, receiver |-> to, amount |-> amt]

Pay(b, x) ==
  [b EXCEPT ![x.asset] =
     [h \in Holders |->
        IF h = x.sender /\ h = x.receiver THEN @[h]
        ELSE IF h = x.sender THEN @[h] - x.amount
        ELSE IF h = x.receiver THEN @[h] + x.amount
        ELSE @[h]]]

\* A sequence of transfers applied in order; fails (ok = FALSE) at the first
\* one whose sender does not hold the amount.
RECURSIVE Submit(_, _)
Submit(b, xs) ==
  IF xs = <<>> THEN [ok |-> TRUE, bal |-> b]
  ELSE LET x == Head(xs)
       IN  IF x.receiver \notin Holders \/ b[x.asset][x.sender] < x.amount
           THEN [ok |-> FALSE, bal |-> b]
           ELSE Submit(Pay(b, x), Tail(xs))

\* An inner transfer issued by the contract.
Itxn(asset, to, amt) == Xfer(asset, App, to, amt)

(***************************************************************************)
(* Atomic groups.  A group is the staged transfers that precede the app    *)
(* call, and the group's size.                                             *)
(***************************************************************************)
Other(a) == CHOOSE x \in Assets : x # a

WellFormed(caller, assets, amt) ==
  [size |-> Len(assets) + 1,
   txns |-> [i \in 1..Len(assets) |-> Xfer(assets[i], caller, App, amt)]]

\* The one-field deviations of a well-formed group: a longer group, another
\* asset, another receiver, another sender, unequal amounts.
Deviations(wf) ==
  LET n == Len(wf.txns)
  IN  {[wf EXCEPT !.size = @ + 1],
       [wf EXCEPT !.txns[1].asset = Other(@)],
       [wf EXCEPT !.txns[n].receiver = creatorAddress],
       [wf EXCEPT !.txns[n].sender = creatorAddress]}
      \cup {[wf EXCEPT !.txns[i].amount = @ + 1] : i \in 2..n}

Max(S) == CHOOSE x \in S : \A y \in S : y <= x

\* The groups a caller submits: the well-formed group for each amount, and
\* the deviations of the one with the largest amount.
Groups(caller, assets, amounts) ==
  {WellFormed(caller, assets, a) : a \in amounts}
  \cup Deviations(WellFormed(caller, assets, Max(amounts)))

(***************************************************************************)
(* Results of a call.                                                      *)
(***************************************************************************)
Rejected ==
  [ok |-> FALSE, locked |-> totalAlphaLocked, paused |-> isPaused,
   bal |-> bal, itxns |-> <<>>]

\* A call whose asserts passed: the staged transfers, then the inner
\* transfers; the call commits if every one of them succeeds.
Commit(g, locked, paused, itxns) ==
  LET staged == Submit(bal, g.txns)
      inner  == Submit(staged.bal, itxns)
  IN  IF staged.ok /\ inner.ok
      THEN [ok |-> TRUE, locked |-> locked, paused |-> paused,
            bal |-> inner.bal, itxns |-> itxns]
      ELSE Rejected

NoGroup == [size |-> 1, txns |-> <<>>]

(***************************************************************************)
(* mintTokens                                                              *)
(***************************************************************************)
NotPausedAlways == TRUE

\* assert(!this.isPaused.value)
NotPaused == ~isPaused

InMintWindow == now >= StartMint /\ now <= MintEnd

MintFee(depositAmount) == mulDivFloor(depositAmount, MINT_FEE_BPS, BPS_DIVISOR)

AfterFeeAny(amountAfterFee) == TRUE

\* assert(amountAfterFee >= MIN_DEPOSIT_UNITS)
AfterFeeOk(amountAfterFee) == amountAfterFee >= MIN_DEPOSIT_UNITS

LockedAfterMintGross(locked, depositAmount, amountAfterFee) ==
  locked + depositAmount

LockedAfterMintNone(locked, depositAmount, amountAfterFee) == locked

\* totalAlphaLocked + amountAfterFee
LockedAfterMint(locked, depositAmount, amountAfterFee) ==
  locked + amountAfterFee

mintTokens(caller, g) ==
  LET alphaTransfer == g.txns[1]
      depositAmount == alphaTransfer.amount
      f == MintFee(depositAmount)
      feeAmount == f.q
      amountAfterFee == depositAmount - feeAmount
      asserts ==
        /\ NotPaused
        /\ InMintWindow
        /\ g.size = 2
        /\ alphaTransfer.asset = ALPHA
        /\ alphaTransfer.receiver = App
        /\ alphaTransfer.sender = caller
        /\ depositAmount >= MIN_DEPOSIT_UNITS
        /\ f.ok
        /\ depositAmount >= feeAmount
        /\ AfterFeeOk(amountAfterFee)
        /\ LockedAfterMint(totalAlphaLocked, depositAmount, amountAfterFee) < Word
  IN  IF asserts
      THEN Commit(g, LockedAfterMint(totalAlphaLocked, depositAmount, amountAfterFee),
                  isPaused,
                  (IF feeAmount > 0
                   THEN <<Itxn(ALPHA, creator, feeAmount)>> ELSE <<>>)
                  \o <<Itxn(PT, alphaTransfer.sender, amountAfterFee),
                       Itxn(YT, alphaTransfer.sender, amountAfterFee)>>)
      ELSE Rejected

(***************************************************************************)
(* redeemTokens                                                            *)
(***************************************************************************)
InRedeemWindow == now >= StartMint /\ now <= Maturity

EarlyFeeAppliesAlways == TRUE

EarlyFeeApplies == now > MintEnd

EarlyRedeemFee(redeemAmount) ==
  mulDivFloor(redeemAmount, EARLY_REDEEM_FEE_BPS, BPS_DIVISOR)

redeemTokens(caller, g) ==
  LET ptTransfer == g.txns[1]
      ytTransfer == g.txns[2]
      redeemAmount == ptTransfer.amount
      f == IF EarlyFeeApplies THEN EarlyRedeemFee(redeemAmount)
           ELSE [ok |-> TRUE, q |-> 0]
      feeAmount == f.q
      amountAfterFee == redeemAmount - feeAmount
      asserts ==
        /\ NotPaused
        /\ InRedeemWindow
        /\ g.size = 3
        /\ ptTransfer.asset = PT
        /\ ptTransfer.receiver = App
        /\ ytTransfer.asset = YT
        /\ ytTransfer.receiver = App
        /\ ptTransfer.amount = ytTransfer.amount
        /\ ptTransfer.sender = ytTransfer.sender
        /\ ptTransfer.sender = caller
        /\ redeemAmount >= MIN_DEPOSIT_UNITS
        /\ totalAlphaLocked >= redeemAmount
        /\ f.ok
        /\ redeemAmount >= feeAmount
        /\ (EarlyFeeApplies => amountAfterFee >= MIN_DEPOSIT_UNITS)
  IN  IF asserts
      THEN Commit(g, totalAlphaLocked - redeemAmount, isPaused,
                  (IF feeAmount > 0
                   THEN <<Itxn(ALPHA, creator, feeAmount)>> ELSE <<>>)
                  \o <<Itxn(ALPHA, ptTransfer.sender, amountAfterFee)>>)
      ELSE Rejected

(***************************************************************************)
(* redeemPtMature                                                          *)
(***************************************************************************)
MaturedAtMintEnd == now > MintEnd

Matured == now > Maturity

redeemPtMature(caller, g) ==
  LET ptTransfer == g.txns[1]
      redeemAmount == ptTransfer.amount
      asserts ==
        /\ NotPaused
        /\ Matured
        /\ g.size = 2
        /\ ptTransfer.asset = PT
        /\ ptTransfer.receiver = App
        /\ ptTransfer.sender = caller
        /\ redeemAmount >= MIN_DEPOSIT_UNITS
        /\ totalAlphaLocked >= redeemAmount
  IN  IF asserts
      THEN Commit(g, totalAlphaLocked - redeemAmount, isPaused,
                  <<Itxn(ALPHA, ptTransfer.sender, redeemAmount)>>)
      ELSE Rejected

(***************************************************************************)
(* claimYtYield.  The balances it reads are those after the staged escrow  *)
(* transfer of the group has been applied.                                 *)
(***************************************************************************)
ytTotalSupply == TokenSupply

CirculatingSupply(contractYtBalanceAfter, userYtAmount) ==
  ytTotalSupply - (contractYtBalanceAfter - userYtAmount)

UserShareOfSupply(userYtAmount, usdcBalance, circulatingSupply) ==
  mulDivFloor(userYtAmount, usdcBalance, ytTotalSupply)

UserShareSwapped(userYtAmount, usdcBalance, circulatingSupply) ==
  mulDivFloor(userYtAmount, circulatingSupply, usdcBalance)

UserShare(userYtAmount, usdcBalance, circulatingSupply) ==
  mulDivFloor(userYtAmount, usdcBalance, circulatingSupply)

ShareOkOrZero(userShare, usdcBalance) == userShare <= usdcBalance

ShareOk(userShare, usdcBalance) == userShare > 0 /\ userShare <= usdcBalance

claimYtYield(caller, g) ==
  LET ytTransfer == g.txns[1]
      userYtAmount == ytTransfer.amount
      staged == Submit(bal, g.txns)
      usdcBalance == staged.bal[USDC][App]
      contractYtBalanceAfter == staged.bal[YT][App]
      circulatingSupply == CirculatingSupply(contractYtBalanceAfter, userYtAmount)
      s == UserShare(userYtAmount, usdcBalance, circulatingSupply)
      userShare == s.q
      asserts ==
        /\ NotPaused
        /\ Matured
        /\ g.size = 2
        /\ ytTransfer.asset = YT
        /\ ytTransfer.receiver = App
        /\ ytTransfer.sender = caller
        /\ userYtAmount > 0
        /\ staged.ok
        /\ usdcBalance >= 1
        /\ contractYtBalanceAfter >= userYtAmount
        /\ ytTotalSupply >= contractYtBalanceAfter - userYtAmount
        /\ circulatingSupply > 0
        /\ circulatingSupply >= userYtAmount
        /\ s.ok
        /\ ShareOk(userShare, usdcBalance)
  IN  IF asserts
      THEN Commit(g, totalAlphaLocked, isPaused,
                  <<Itxn(USDC, ytTransfer.sender, userShare)>>)
      ELSE Rejected

(***************************************************************************)
(* withdrawAllBalances and setPaused.  Their only authorization assert     *)
(* compares Global.creatorAddress with the stored creator; the sender of   *)
(* the call is not read.                                                   *)
(***************************************************************************)
OnlyCreator(caller) == creatorAddress = creator

SweepOpen == now > Maturity + THIRTY_DAYS_SEC

SweepItxnsAll(b) ==
  <<Itxn(ALPHA, creator, b[ALPHA][App]), Itxn(USDC, creator, b[USDC][App]),
    Itxn(PT, creator, b[PT][App]), Itxn(YT, creator, b[YT][App])>>

SweepItxns(b) ==
  (IF b[ALPHA][App] > 0 THEN <<Itxn(ALPHA, creator, b[ALPHA][App])>> ELSE <<>>)
  \o (IF b[USDC][App] > 0 THEN <<Itxn(USDC, creator, b[USDC][App])>> ELSE <<>>)
  \o (IF b[PT][App] > 0 THEN <<Itxn(PT, creator, b[PT][App])>> ELSE <<>>)
  \o (IF b[YT][App] > 0 THEN <<Itxn(YT, creator, b[YT][App])>> ELSE <<>>)

withdrawAllBalances(caller) ==
  IF OnlyCreator(caller) /\ SweepOpen
  THEN Commit(NoGroup, totalAlphaLocked, isPaused, SweepItxns(bal))
  ELSE Rejected

setPaused(caller, paused) ==
  IF OnlyCreator(caller)
  THEN Commit(NoGroup, totalAlphaLocked, paused, <<>>)
  ELSE Rejected

(***************************************************************************)
(* The order book: local state, inner transfers, results of a call.        *)
(***************************************************************************)
Slots == {ORDER_SLOT_1, ORDER_SLOT_2}

\* A slot no createOrder has written: none of its five keys has a value.
NoOrder ==
  [hasValue |-> FALSE, id |-> 0, type |-> 0, qty |-> 0, price |-> 0,
   filled |-> 0]

\* The accounts that opted in to the application (optIn): only they have
\* local state, and a local-state access of any other account fails.
OptedIn == Users

\* LocalState(account).value of a key: the read fails the call unless the
\* key has a value.
Reads(o) == o.hasValue

BookItxn(asset, to, amt) == Xfer(asset, Book, to, amt)

BookRejected == [ok |-> FALSE, orders |-> orders, bal |-> bal, itxns |-> <<>>]

\* A rejected call that keeps the writes and the transfers made before the
\* one that failed.
BookCommitPartial(g, newOrders, itxns) ==
  LET staged == Submit(bal, g.txns)
      inner  == Submit(staged.bal, itxns)
  IN  [ok |-> staged.ok /\ inner.ok, orders |-> newOrders,
       bal |-> IF staged.ok THEN inner.bal ELSE staged.bal,
       itxns |-> itxns]

\* A call whose asserts passed: the staged transfers, then the inner
\* transfers; the call commits if every one of them succeeds.
BookCommit(g, newOrders, itxns) ==
  LET staged == Submit(bal, g.txns)
      inner  == Submit(staged.bal, itxns)
  IN  IF staged.ok /\ inner.ok
      THEN [ok |-> TRUE, orders |-> newOrders, bal |-> inner.bal,
            itxns |-> itxns]
      ELSE BookRejected

\* The escrowed token of an order type, and the token it is paid in.
ClaimAsset(orderType) == IF orderType = ORDER_TYPE_PT THEN PT ELSE YT

PaymentAsset(orderType) == IF orderType = ORDER_TYPE_PT THEN ALPHA ELSE USDC

(***************************************************************************)
(* createOrder                                                             *)
(***************************************************************************)
SlotAvailableAlways(o) == TRUE

SlotAvailableNeverUsed(o) == ~o.hasValue

\* !orderExists || orderFilled >= orderQty
SlotAvailable(o) == ~o.hasValue \/ o.filled >= o.qty

\* The slot createOrder writes for sender: 1, else 2, else none (0).
ChosenSlot(sender) ==
  IF SlotAvailable(orders[sender][ORDER_SLOT_1]) THEN ORDER_SLOT_1
  ELSE IF SlotAvailable(orders[sender][ORDER_SLOT_2]) THEN ORDER_SLOT_2
  ELSE 0

NewOrderKeepsFilled(old, orderId, assetType, quantity, pricePerUnit) ==
  [hasValue |-> TRUE, id |-> orderId, type |-> assetType, qty |-> quantity,
   price |-> pricePerUnit, filled |-> old.filled]

NewOrder(old, orderId, assetType, quantity, pricePerUnit) ==
  [hasValue |-> TRUE, id |-> orderId, type |-> assetType, qty |-> quantity,
   price |-> pricePerUnit, filled |-> 0]

createOrder(caller, g, assetType, quantity, pricePerUnit, orderId) ==
  LET depositTxn == g.txns[1]
      sender == caller
      slot == ChosenSlot(sender)
      asserts ==
        /\ g.size = 2
        /\ depositTxn.sender = sender
        /\ depositTxn.receiver = Book
        /\ depositTxn.amount = quantity
        /\ depositTxn.asset = ClaimAsset(assetType)
        /\ quantity >= MIN_ORDER_UNITS
        /\ pricePerUnit > 0
        /\ orderId > 0
        /\ assetType \in {ORDER_TYPE_PT, ORDER_TYPE_YT}
        /\ sender \in OptedIn
        /\ slot # 0
  IN  IF asserts
      THEN BookCommit(g,
             [orders EXCEPT ![sender][slot] =
                NewOrder(@, orderId, assetType, quantity, pricePerUnit)],
             <<>>)
      ELSE BookRejected

(***************************************************************************)
(* fillOrder                                                               *)
(***************************************************************************)
FillBigEnoughAny(fillQty) == fillQty > 0

\* assert(fillQty >= MIN_ORDER_UNITS)
FillBigEnough(fillQty) == fillQty >= MIN_ORDER_UNITS

\* assert(fillQty <= remainingQty)
FitsRemaining(fillQty, remainingQty) == fillQty <= remainingQty

IdMatchesAny(orderIdStored, orderId) == TRUE

\* assert(orderIdStored === orderId)
IdMatches(orderIdStored, orderId) == orderIdStored = orderId

RequiredPayment(fillQty, pricePerUnit) ==
  mulDivFloor(fillQty, pricePerUnit, 1000000)

PlatformFeeDouble(requiredPayment) ==
  mulDivFloor(requiredPayment, 2 * PLATFORM_FEE_BPS, BPS_DIVISOR)

PlatformFee(requiredPayment) ==
  mulDivFloor(requiredPayment, PLATFORM_FEE_BPS, BPS_DIVISOR)

\* The asserts of fillOrder on its arguments and the slot they name (the
\* input validation, the reads of the slot, the id and remaining-quantity
\* checks); the other asserts are on the staged payment.
Fillable(seller, orderSlot, orderId, fillQty) ==
  LET o == orders[seller][orderSlot]
      remainingQty == o.qty - o.filled
  IN  /\ FillBigEnough(fillQty)
      /\ orderSlot \in Slots
      /\ seller \in OptedIn
      /\ Reads(o)
      /\ IdMatches(o.id, orderId)
      /\ o.id > 0
      /\ o.qty >= o.filled
      /\ remainingQty > 0
      /\ FitsRemaining(fillQty, remainingQty)

fillOrder(caller, g, seller, orderSlot, orderId, fillQty) ==
  LET paymentTxn == g.txns[1]
      buyer == caller
      o == orders[seller][orderSlot]
      rp == RequiredPayment(fillQty, o.price)
      requiredPayment == rp.q
      pf == PlatformFee(requiredPayment)
      platformFee == pf.q
      sellerPayment == requiredPayment - platformFee
      newFilledQty == o.filled + fillQty
      expectedPaymentAsset == PaymentAsset(o.type)
      asserts ==
        /\ g.size = 2
        /\ paymentTxn.sender = buyer
        /\ paymentTxn.receiver = Book
        /\ Fillable(seller, orderSlot, orderId, fillQty)
        /\ rp.ok
        /\ requiredPayment > 0
        /\ paymentTxn.asset = expectedPaymentAsset
        /\ paymentTxn.amount = requiredPayment
        /\ pf.ok
        /\ requiredPayment >= platformFee
        /\ newFilledQty < Word
  IN  IF asserts
      THEN BookCommit(g,
             [orders EXCEPT ![seller][orderSlot].filled = newFilledQty],
             <<BookItxn(expectedPaymentAsset, seller, sellerPayment)>>
             \o (IF platformFee > 0
                 THEN <<BookItxn(expectedPaymentAsset, emergencyAdmin, platformFee)>>
                 ELSE <<>>)
             \o <<BookItxn(ClaimAsset(o.type), buyer, fillQty)>>)
      ELSE BookRejected

(***************************************************************************)
(* cancelOrder and cancelBothOrders                                        *)
(***************************************************************************)
IsSellerOrAdminAnyone(caller, seller) == TRUE

\* caller === seller || caller === this.emergencyAdmin.value
IsSellerOrAdmin(caller, seller) == caller = seller \/ caller = emergencyAdmin

cancelOrder(caller, g, seller, orderSlot) ==
  LET o == orders[seller][orderSlot]
      remainingQty == o.qty - o.filled
      asserts ==
        /\ g.size = 1
        /\ IsSellerOrAdmin(caller, seller)
        /\ orderSlot \in Slots
        /\ seller \in OptedIn
        /\ Reads(o)
        /\ o.qty >= o.filled
        /\ remainingQty > 0
  IN  IF asserts
      THEN BookCommit(g,
             [orders EXCEPT ![seller][orderSlot].filled = o.qty],
             <<BookItxn(ClaimAsset(o.type), seller, remainingQty)>>)
      ELSE BookRejected

cancelBothOrders(caller, g, seller) ==
  LET o1 == orders[seller][ORDER_SLOT_1]
      o2 == orders[seller][ORDER_SLOT_2]
      order1Remaining == o1.qty - o1.filled
      order2Remaining == o2.qty - o2.filled
      anyCanceled == order1Remaining > 0 \/ order2Remaining > 0
      asserts ==
        /\ g.size = 1
        /\ IsSellerOrAdmin(caller, seller)
        /\ seller \in OptedIn
        /\ Reads(o1)
        /\ o1.qty >= o1.filled
        /\ Reads(o2)
        /\ o2.qty >= o2.filled
        /\ anyCanceled
  IN  IF asserts
      THEN BookCommit(g,
             [orders EXCEPT
                ![seller][ORDER_SLOT_1].filled =
                   IF order1Remaining > 0 THEN o1.qty ELSE @,
                ![seller][ORDER_SLOT_2].filled =
                   IF order2Remaining > 0 THEN o2.qty ELSE @],
             (IF order1Remaining > 0
              THEN <<BookItxn(ClaimAsset(o1.type), seller, order1Remaining)>>
              ELSE <<>>)
             \o (IF order2Remaining > 0
                 THEN <<BookItxn(ClaimAsset(o2.type), seller, order2Remaining)>>
                 ELSE <<>>))
      ELSE BookRejected

(***************************************************************************)
(* withdrawFunds                                                           *)
(***************************************************************************)
IsAuthorized(caller) == caller = creatorAddress \/ caller = emergencyAdmin

WithdrawOpenAlways == TRUE

\* Global.latestTimestamp >= this.withdrawalTimestamp.value
WithdrawOpen == now >= withdrawalTimestamp

WithdrawAsset(assetType) ==
  CASE assetType = 0 -> PT
    [] assetType = 1 -> YT
    [] assetType = 2 -> USDC
    [] assetType = 3 -> ALPHA

withdrawFunds(caller, g, assetType, amount) ==
  LET asserts ==
        /\ g.size = 1
        /\ IsAuthorized(caller)
        /\ WithdrawOpen
        /\ amount > 0
        /\ assetType \in 0..3
  IN  IF asserts
      THEN BookCommit(g, orders, <<BookItxn(WithdrawAsset(assetType), caller, amount)>>)
      ELSE BookRejected

(***************************************************************************)
(* Inputs of the bounded model: the deposit, redemption and claim amounts  *)
(* callers try (the boundary values of the minimum and of the two fees),   *)
(* the USDC payments, and the instants of the clock (each window's ends).  *)
(***************************************************************************)
Deposits == {1000000, 1000500, 1005025, 1020331}
RedeemAmounts == {999999, 1000000, 1015229}
ClaimAmounts == {1, 1000000}
YieldDeposits == {5}
Times ==
  {StartMint - 1, StartMint, MintEnd, Maturity,
   Maturity + THIRTY_DAYS_SEC, Maturity + THIRTY_DAYS_SEC + 1}
\* The senders of the privileged calls: the creator and one other account.
AdminCallers == {creatorAddress, "alice"}

NoShares == [u \in ClaimAmounts |-> [prev |-> 0, latest |-> 0]]

NoCall == [op |-> "none", caller |-> App, amount |-> 0, t |-> 0]

NoBookCall ==
  [op |-> "none", caller |-> Book, seller |-> Book, slot |-> 0, parts |-> 0]

\* The order book right after deployment and the users' opt-in: no slot has
\* been written.
\* No mulDivFloor call under study.
NoMulDiv ==
  [w |-> 2, n1 |-> 0, n2 |-> 0, d |-> 0, done |-> FALSE, ok |-> FALSE, q |-> 0]

BookStart ==
  /\ orders = [u \in OptedIn |-> [s \in Slots |-> NoOrder]]
  /\ bookLast = NoBookCall
  /\ created = 0
  /\ withdrawn = 0

\* The amount of `asset' the inner transfers of the last call paid to `to'.
RECURSIVE PaidIn(_, _, _)
PaidIn(xs, asset, to) ==
  IF xs = <<>> THEN 0
  ELSE (IF Head(xs).asset = asset /\ Head(xs).receiver = to
        THEN Head(xs).amount ELSE 0) + PaidIn(Tail(xs), asset, to)

Init ==
  /\ now = StartMint - 1
  /\ totalAlphaLocked = 0
  /\ isPaused = FALSE
  /\ bal = [a \in Assets |-> [h \in Holders |->
              CASE a = ALPHA /\ h = "alice" -> UserAlpha
                [] a = ALPHA /\ h = "bob" -> UserAlpha \div 2
                [] a \in {PT, YT} /\ h = App -> TokenSupply
                [] a = USDC /\ h = creatorAddress -> YieldFund
                [] OTHER -> 0]]
  /\ last = NoCall
  /\ mints = 0
  /\ ptMinted = 0
  /\ ptReturned = 0
  /\ matureSeen = FALSE
  /\ shares = NoShares
  /\ swept = FALSE
  /\ BookStart
  /\ md = NoMulDiv

\* The state change of a call with result res.  A rejected call changes
\* nothing (the group is rolled back), so only a call that commits is a step.
Call(res) ==
  /\ res.ok
  /\ totalAlphaLocked' = res.locked
  /\ isPaused' = res.paused
  /\ bal' = res.bal
  /\ now' = now
  /\ UNCHANGED bookVars
  /\ UNCHANGED mathVars

Did(op, caller, amount) ==
  [op |-> op, caller |-> caller, amount |-> amount, t |-> now]

MintTokens ==
  \E caller \in Users :
    \E g \in Groups(caller, <<ALPHA>>, Deposits) :
      LET res == mintTokens(caller, g)
          d == g.txns[1].amount
      IN  /\ mints < MaxMints
          /\ Call(res)
          /\ last' = Did("mintTokens", caller, d)
          /\ mints' = mints + 1
          /\ ptMinted' = ptMinted + PaidIn(res.itxns, PT, caller)
          /\ UNCHANGED <<ptReturned, matureSeen, shares, swept>>

RedeemTokens ==
  \E caller \in Users :
    \E g \in Groups(caller, <<PT, YT>>, RedeemAmounts) :
      LET res == redeemTokens(caller, g)
          r == g.txns[1].amount
      IN  /\ Call(res)
          /\ last' = Did("redeemTokens", caller, r)
          /\ ptReturned' = ptReturned + r
          /\ UNCHANGED <<mints, ptMinted, matureSeen, shares, swept>>

RedeemPtMature ==
  \E caller \in Users :
    \E g \in Groups(caller, <<PT>>, RedeemAmounts) :
      LET res == redeemPtMature(caller, g)
          r == g.txns[1].amount
      IN  /\ Call(res)
          /\ last' = Did("redeemPtMature", caller, r)
          /\ ptReturned' = ptReturned + r
          /\ matureSeen' = TRUE
          /\ UNCHANGED <<mints, ptMinted, shares, swept>>

ClaimYtYield ==
  \E caller \in Users :
    \E g \in Groups(caller, <<YT>>, ClaimAmounts) :
      LET res == claimYtYield(caller, g)
          u == g.txns[1].amount
      IN  /\ Call(res)
          /\ last' = Did("claimYtYield", caller, u)
          /\ matureSeen' = TRUE
          /\ shares' = [shares EXCEPT ![u] =
                         [prev |-> @.latest, latest |-> PaidIn(res.itxns, USDC, caller)]]
          /\ UNCHANGED <<mints, ptMinted, ptReturned, swept>>

WithdrawAllBalances ==
  \E caller \in AdminCallers :
    /\ Call(withdrawAllBalances(caller))
    /\ last' = Did("withdrawAllBalances", caller, 0)
    /\ swept' = TRUE
    /\ UNCHANGED <<mints, ptMinted, ptReturned, matureSeen, shares>>

SetPaused ==
  \E caller \in AdminCallers, paused \in BOOLEAN :
    /\ Call(setPaused(caller, paused))
    /\ UNCHANGED <<last, mints, ptMinted, ptReturned, matureSeen, shares,
                   swept>>

\* The creator pays yield (USDC) into the contract: a plain asset transfer
\* to the application address, outside any call.  No call made before
\* maturity reads the USDC balance, so a payment made before maturity has
\* the effect of the same payment made right after it; the model makes
\* the payments after maturity only.
DepositYield ==
  \E amt \in YieldDeposits :
    LET paid == Submit(bal, <<Xfer(USDC, creatorAddress, App, amt)>>)
    IN  /\ Matured
        /\ paid.ok
        /\ bal' = paid.bal
        /\ last' = [NoCall EXCEPT !.op = "depositYield", !.amount = amt, !.t = now]
        /\ shares' = NoShares
        /\ UNCHANGED <<now, totalAlphaLocked, isPaused, mints, ptMinted,
                       ptReturned, matureSeen, swept>>
        /\ UNCHANGED bookVars
        /\ UNCHANGED mathVars

\* Global.latestTimestamp only moves forward.
Tick ==
  \E t \in Times :
    /\ t > now
    /\ now' = t
    /\ last' = NoCall
    /\ UNCHANGED <<totalAlphaLocked, isPaused, bal, mints, ptMinted,
                   ptReturned, matureSeen, shares, swept>>
    /\ UNCHANGED bookVars
    /\ UNCHANGED mathVars

Next ==
  \/ MintTokens
  \/ RedeemTokens
  \/ RedeemPtMature
  \/ ClaimYtYield
  \/ WithdrawAllBalances
  \/ SetPaused
  \/ DepositYield
  \/ Tick

Spec == Init /\ [][Next]_vars

(***************************************************************************)
(* The order book as a state machine.                                      *)
(*                                                                         *)
(* Inputs of the bounded model: the orders sellers place (the type, the    *)
(* quantity and the price per unit), the ids they give them, the           *)
(* quantities buyers ask for (one below the minimum), the payments they    *)
(* stage (the exact ones, and one unit under and over), the amounts the    *)
(* admin withdraws, and the instant the lock period ends.                  *)
(***************************************************************************)
OrderTemplates ==
  {[type |-> ORDER_TYPE_PT, qty |-> 2000000, price |-> 1500000],
   [type |-> ORDER_TYPE_YT, qty |-> 3000000, price |-> 1]}
\* The ids sellers give their orders: the next of a running count.  The
\* ids buyers name: every id given so far or still to come.
NextOrderId == created + 1
OrderIds == 1..MaxOrders
FillAmounts == {500000, 1000000, 2000000}
PaymentAmounts == {1, 2, 1499999, 1500000, 1500001, 3000000}
WithdrawAmounts == {1000000}
BookTimes == {withdrawalTimestamp}
BookCallers == Users \cup {emergencyAdmin}

BookWellFormed(caller, asset, amt) ==
  [size |-> 2, txns |-> <<Xfer(asset, caller, Book, amt)>>]

BookDeviations(wf) ==
  {[g EXCEPT !.txns[1].receiver = IF @ = App THEN Book ELSE @] :
     g \in Deviations(wf)}
  \cup {[wf EXCEPT !.txns[1].amount = @ + 1]}

\* The groups a seller submits with createOrder.
DepositGroups(caller, assetType, quantity) ==
  {BookWellFormed(caller, ClaimAsset(assetType), quantity)}
  \cup BookDeviations(BookWellFormed(caller, ClaimAsset(assetType), quantity))

\* The groups a buyer submits with fillOrder.
PaymentGroups(caller) ==
  {BookWellFormed(caller, a, m) : a \in {ALPHA, USDC}, m \in PaymentAmounts}
  \cup BookDeviations(BookWellFormed(caller, ALPHA, 1500000))

vaultVars ==
  <<totalAlphaLocked, isPaused, last, mints, ptMinted, ptReturned,
    matureSeen, shares, swept>>

\* The tokens the users bring to the order book: alice the claim tokens of
\* earlier mints, bob the tokens orders are paid in.
BookInit ==
  /\ now = BookDeploy
  /\ totalAlphaLocked = 0
  /\ isPaused = FALSE
  /\ bal = [a \in Assets |-> [h \in Holders |->
              CASE a = PT /\ h = "alice" -> SellerPt
                [] a = YT /\ h = "alice" -> SellerYt
                [] a = ALPHA /\ h = "bob" -> BuyerAlpha
                [] a = USDC /\ h = "bob" -> BuyerUsdc
                [] OTHER -> 0]]
  /\ last = NoCall
  /\ mints = 0
  /\ ptMinted = 0
  /\ ptReturned = 0
  /\ matureSeen = FALSE
  /\ shares = NoShares
  /\ swept = FALSE
  /\ BookStart
  /\ md = NoMulDiv

\* The state change of an order-book call with result res; as for the
\* vault, only a call that commits is a step.
BookCall(res) ==
  /\ res.ok
  /\ orders' = res.orders
  /\ bal' = res.bal
  /\ now' = now
  /\ UNCHANGED vaultVars
  /\ UNCHANGED mathVars

\* The latest call: its sender, the seller and the slot it was about, and,
\* for a fillOrder, how many fills of that slot in a row it completes.
BookDid(op, caller, seller, slot) ==
  [op |-> op, caller |-> caller, seller |-> seller, slot |-> slot,
   parts |-> IF op # "fillOrder" THEN 0
             ELSE IF /\ bookLast.op = "fillOrder"
                     /\ bookLast.seller = seller
                     /\ bookLast.slot = slot
                  THEN bookLast.parts + 1
                  ELSE 1]

CreateOrder ==
  \E caller \in Users, o \in OrderTemplates, orderId \in {NextOrderId} :
    \E g \in DepositGroups(caller, o.type, o.qty) :
      LET res == createOrder(caller, g, o.type, o.qty, o.price, orderId)
          slot == ChosenSlot(caller)
      IN  /\ created < MaxOrders
          /\ BookCall(res)
          /\ created' = created + 1
          /\ bookLast' = BookDid("createOrder", caller, caller, slot)
          /\ UNCHANGED withdrawn

FillOrder ==
  \E seller \in Users, orderSlot \in Slots, orderId \in OrderIds,
     fillQty \in FillAmounts :
    \* (no buyer's call with these arguments commits unless they are fillable)
    /\ Fillable(seller, orderSlot, orderId, fillQty)
    /\ \E caller \in Users : \E g \in PaymentGroups(caller) :
      LET res == fillOrder(caller, g, seller, orderSlot, orderId, fillQty)
      IN  /\ BookCall(res)
          /\ bookLast' = BookDid("fillOrder", caller, seller, orderSlot)
          /\ UNCHANGED <<created, withdrawn>>

CancelOrder ==
  \E caller \in BookCallers, seller \in Users, orderSlot \in Slots :
    LET res == cancelOrder(caller, NoGroup, seller, orderSlot)
    IN  /\ BookCall(res)
        /\ bookLast' = BookDid("cancelOrder", caller, seller, orderSlot)
        /\ UNCHANGED <<created, withdrawn>>

CancelBothOrders ==
  \E caller \in BookCallers, seller \in Users :
    LET res == cancelBothOrders(caller, NoGroup, seller)
    IN  /\ BookCall(res)
        /\ bookLast' = BookDid("cancelBothOrders", caller, seller, 0)
        /\ UNCHANGED <<created, withdrawn>>

WithdrawFunds ==
  \E caller \in BookCallers, assetType \in 0..4, amount \in WithdrawAmounts :
    LET res == withdrawFunds(caller, NoGroup, assetType, amount)
    IN  /\ withdrawn < MaxWithdrawals
        /\ BookCall(res)
        /\ withdrawn' = withdrawn + 1
        /\ bookLast' = BookDid("withdrawFunds", caller, Book, 0)
        /\ UNCHANGED created

BookTick ==
  \E t \in BookTimes :
    /\ t > now
    /\ now' = t
    /\ bookLast' = NoBookCall
    /\ UNCHANGED <<bal, orders, created, withdrawn>>
    /\ UNCHANGED vaultVars
    /\ UNCHANGED mathVars

BookNext ==
  \/ CreateOrder
  \/ FillOrder
  \/ CancelOrder
  \/ CancelBothOrders
  \/ WithdrawFunds
  \/ BookTick

BookSpec == BookInit /\ [][BookNext]_vars

(***************************************************************************)
(* mulDivFloor on its own.  A call is drawn from the bounded inputs and    *)
(* then run: every triple of words of the small width, and at the model's  *)
(* word width the triples of the amounts, rates and divisors the two       *)
(* contracts pass, with the extremes of the word.                          *)
(***************************************************************************)
SmallWord == 2 ^ SmallBits

WideWords ==
  {0, 1, MINT_FEE_BPS, EARLY_REDEEM_FEE_BPS, BPS_DIVISOR, 32768, 999999,
   MIN_ORDER_UNITS, 1500000, UserAlpha, Word \div 2, Word - 1}

MulDivCalls ==
  {[NoMulDiv EXCEPT !.w = SmallWord, !.n1 = a, !.n2 = b, !.d = c] :
     a \in 0..(SmallWord - 1), b \in 0..(SmallWord - 1),
     c \in 0..(SmallWord - 1)}
  \cup {[NoMulDiv EXCEPT !.w = Word, !.n1 = a, !.n2 = b, !.d = c] :
          a \in WideWords, b \in WideWords, c \in WideWords}

MulDivInit ==
  /\ md \in MulDivCalls
  /\ now = 0
  /\ totalAlphaLocked = 0
  /\ isPaused = FALSE
  /\ bal = [a \in Assets |-> [h \in Holders |-> 0]]
  /\ last = NoCall
  /\ mints = 0
  /\ ptMinted = 0
  /\ ptReturned = 0
  /\ matureSeen = FALSE
  /\ shares = NoShares
  /\ swept = FALSE
  /\ BookStart

MulDivFloor ==
  LET res == mulDivFloorAt(md.w, md.n1, md.n2, md.d)
  IN  /\ ~md.done
      /\ md' = [md EXCEPT !.done = TRUE, !.ok = res.ok, !.q = res.q]
      /\ UNCHANGED <<now, bal>>
      /\ UNCHANGED vaultVars
      /\ UNCHANGED bookVars

MulDivNext == MulDivFloor

MulDivSpec == MulDivInit /\ [][MulDivNext]_vars

(***************************************************************************)
(* Claims about the vault.  What a call does in a state is the result of   *)
(* its handler there: res.ok says whether the call commits, res.locked,    *)
(* res.paused and res.bal are the state it leaves, res.itxns the inner     *)
(* transfers it issued.                                                    *)
(***************************************************************************)
MintGroups(caller) == Groups(caller, <<ALPHA>>, Deposits)
RedeemGroups(caller) == Groups(caller, <<PT, YT>>, RedeemAmounts)
MatureGroups(caller) == Groups(caller, <<PT>>, RedeemAmounts)
ClaimGroups(caller) == Groups(caller, <<YT>>, ClaimAmounts)

\* What `who' gains of `asset' by a call with result res.
Gain(res, asset, who) == res.bal[asset][who] - bal[asset][who]

\* C1: every committed mintTokens with deposit D adds D - floor(D*50/10000)
\* to totalAlphaLocked, pays the fee floor(D*50/10000) of the underlying to
\* the creator, and hands the depositor exactly D - floor(D*50/10000)
\* principal tokens and as many yield tokens.
C1_MintAccounting ==
  \A caller \in Users : \A g \in MintGroups(caller) :
    LET res == mintTokens(caller, g)
        D   == g.txns[1].amount
        fee == (D * 50) \div 10000
    IN  res.ok =>
          /\ res.locked = totalAlphaLocked + (D - fee)
          /\ Gain(res, ALPHA, creator) = fee
          /\ PaidIn(res.itxns, ALPHA, creator) = fee
          /\ Gain(res, ALPHA, caller) = -D
          /\ Gain(res, PT, caller) = D - fee
          /\ Gain(res, YT, caller) = D - fee

\* A mint of 1,020,331 (fee 5,101) has committed as the first mint.
C1_Witness ==
  /\ last.op = "mintTokens"
  /\ last.amount = 1020331
  /\ totalAlphaLocked = 1015230
  /\ bal[ALPHA][creator] = 5101
  /\ bal[PT][last.caller] = 1015230
  /\ bal[YT][last.caller] = 1015230

\* The state in which a caller's well-formed mint of d can be paid for: the
\* vault is unpaused and inside the mint window, the caller holds d of the
\* underlying and the contract holds d principal and d yield tokens.
MintReady(caller, d) ==
  /\ ~isPaused
  /\ now >= StartMint /\ now <= MintEnd
  /\ bal[ALPHA][caller] >= d
  /\ bal[PT][App] >= d
  /\ bal[YT][App] >= d

MintOf(caller, d) == mintTokens(caller, WellFormed(caller, <<ALPHA>>, d))

\* C2 as stated: inside the mint window, on an unpaused vault, a deposit of
\* exactly 1,000,000 commits with fee 5,000 and 995,000 of each token
\* minted, and a deposit of 1,000,500 commits with fee 5,002 and 995,498.
C2_MinimumDepositMints ==
  \A caller \in Users :
    /\ MintReady(caller, 1000000) =>
         LET res == MintOf(caller, 1000000)
         IN  /\ res.ok
             /\ Gain(res, ALPHA, creator) = 5000
             /\ Gain(res, PT, caller) = 995000
             /\ Gain(res, YT, caller) = 995000
    /\ MintReady(caller, 1000500) =>
         LET res == MintOf(caller, 1000500)
         IN  /\ res.ok
             /\ Gain(res, ALPHA, creator) = 5002
             /\ Gain(res, PT, caller) = 995498

\* C2 amended: the fee on 1,000,000 is 5,000 and on 1,000,500 is 5,002, but
\* both deposits are rejected, their post-fee amounts 995,000 and 995,498
\* being below the minimum of 1,000,000 that the post-fee amount must reach
\* too; inside the window, on an unpaused vault, a deposit commits exactly
\* if its post-fee amount is at least 1,000,000, and the smallest such
\* deposit, 1,005,025, is charged 5,025 and mints 1,000,000 of each token.
C2_MinimumDepositRejected ==
  /\ MintFee(1000000) = [ok |-> TRUE, q |-> 5000]
  /\ MintFee(1000500) = [ok |-> TRUE, q |-> 5002]
  /\ \A caller \in Users :
       /\ ~MintOf(caller, 1000000).ok
       /\ ~MintOf(caller, 1000500).ok
       /\ ~MintOf(caller, 1005024).ok
       /\ \A d \in Deposits :
            MintReady(caller, d) =>
              (MintOf(caller, d).ok <=> d - (d * 50) \div 10000 >= 1000000)
       /\ MintReady(caller, 1005025) =>
            LET res == MintOf(caller, 1005025)
            IN  /\ res.ok
                /\ Gain(res, ALPHA, creator) = 5025
                /\ Gain(res, PT, caller) = 1000000
                /\ Gain(res, YT, caller) = 1000000

\* Inside the window, unpaused, a mint of 1,005,025 has committed and the
\* caller could still pay for a deposit of 1,000,000.
C2_Witness ==
  /\ last.op = "mintTokens"
  /\ last.amount = 1005025
  /\ bal[PT][last.caller] = 1000000
  /\ MintReady(last.caller, 1000000)

\* C3: every committed redeemTokens with gross amount R lowers
\* totalAlphaLocked by exactly R; the fee paid to the creator is 0 exactly
\* when the time is at most mintEndTimestamp and floor(R*150/10000)
\* otherwise; the fee plus what the redeemer is paid is R.
C3_RedeemAccounting ==
  \A caller \in Users : \A g \in RedeemGroups(caller) :
    LET res == redeemTokens(caller, g)
        R   == g.txns[1].amount
        fee == Gain(res, ALPHA, creator)
    IN  res.ok =>
          /\ res.locked = totalAlphaLocked - R
          /\ PaidIn(res.itxns, ALPHA, creator) = fee
          /\ (fee = 0 <=> now <= MintEnd)
          /\ (now > MintEnd => fee = (R * 150) \div 10000)
          /\ fee + Gain(res, ALPHA, caller) = R
          /\ Gain(res, PT, caller) = -R
          /\ Gain(res, YT, caller) = -R

\* A redemption of 1,015,229 has committed after the mint window: the
\* creator holds the mint fee 5,101 and the redemption fee 15,228.
C3_Witness ==
  /\ last.op = "redeemTokens"
  /\ last.t > MintEnd
  /\ last.amount = 1015229
  /\ bal[ALPHA][creator] = 5101 + 15228
  /\ totalAlphaLocked = 1

\* C4: in every reachable state totalAlphaLocked equals the principal
\* tokens handed out by mints minus those returned through redeemTokens and
\* redeemPtMature; it never underflows, since a redemption of more than
\* totalAlphaLocked, by any account, is rejected.
C4_ReserveCoversPrincipal ==
  /\ totalAlphaLocked >= 0
  /\ totalAlphaLocked >= ptMinted - ptReturned
  /\ totalAlphaLocked = ptMinted - ptReturned
  /\ \A caller \in Accounts :
       /\ \A g \in RedeemGroups(caller) :
            LET res == redeemTokens(caller, g)
            IN  res.ok => g.txns[1].amount <= totalAlphaLocked /\ res.locked >= 0
       /\ \A g \in MatureGroups(caller) :
            LET res == redeemPtMature(caller, g)
            IN  res.ok => g.txns[1].amount <= totalAlphaLocked /\ res.locked >= 0

\* Two mints, a redemption before maturity and one after it have committed,
\* and a holder still has more principal tokens than one of the redemption
\* amounts that totalAlphaLocked no longer covers.
C4_Witness ==
  /\ mints = 2
  /\ ptReturned > 1015229
  /\ last.op = "redeemPtMature"
  /\ totalAlphaLocked > 0
  /\ \E r \in RedeemAmounts : r > totalAlphaLocked

\* C5: mintTokens commits only at times t with startMint <= t <= mintEnd,
\* redeemTokens only with startMint <= t <= maturity, redeemPtMature and
\* claimYtYield only with t > maturity; and once a mature redemption or a
\* yield claim has committed (the clock only moving forward, the time
\* stays past maturity) no mintTokens or redeemTokens commits.
C5_PhaseWindows ==
  /\ \A caller \in Accounts :
       /\ \A g \in MintGroups(caller) :
            mintTokens(caller, g).ok =>
              /\ StartMint <= now /\ now <= MintEnd
              /\ ~matureSeen
       /\ \A g \in RedeemGroups(caller) :
            redeemTokens(caller, g).ok =>
              /\ StartMint <= now /\ now <= Maturity
              /\ ~matureSeen
       /\ \A g \in MatureGroups(caller) :
            redeemPtMature(caller, g).ok => now > Maturity
       /\ \A g \in ClaimGroups(caller) :
            claimYtYield(caller, g).ok => now > Maturity
  /\ matureSeen => now > Maturity
  /\ last.op = "mintTokens" => StartMint <= last.t /\ last.t <= MintEnd
  /\ last.op = "redeemTokens" => StartMint <= last.t /\ last.t <= Maturity
  /\ last.op \in {"redeemPtMature", "claimYtYield"} => last.t > Maturity

\* A yield claim has committed; the claimant still holds both tokens and
\* the underlying, and the contract the reserve: only the time keeps a mint
\* or a redemption of both tokens from committing.
C5_Witness ==
  /\ matureSeen
  /\ last.op = "claimYtYield"
  /\ ~isPaused
  /\ totalAlphaLocked >= 1000000
  /\ bal[PT][last.caller] >= 1000000
  /\ bal[YT][last.caller] >= 1000000
  /\ bal[ALPHA][last.caller] >= 1005025

\* C6 as stated: setPaused and withdrawAllBalances commit only when the
\* sender of the call is the creator; sent by any other account they are
\* rejected and change neither the pause flag nor any balance.
C6_PrivilegedOnlyCreator ==
  \A caller \in Accounts \ {creator} :
    /\ \A paused \in BOOLEAN :
         LET res == setPaused(caller, paused)
         IN  ~res.ok /\ res.paused = isPaused /\ res.bal = bal
    /\ LET res == withdrawAllBalances(caller)
       IN  ~res.ok /\ res.paused = isPaused /\ res.bal = bal
    /\ last.op = "withdrawAllBalances" => last.caller = creator

C8_ClaimShare ==
  \A caller \in Accounts : \A g \in ClaimGroups(caller) :
    LET res == claimYtYield(caller, g)
        u == g.txns[1].amount
        B == bal[USDC][App]
        afterEscrow == bal[YT][App] + u
        C == TokenSupply - (afterEscrow - u)
    IN  res.ok =>
          /\ C > 0
          /\ (u * B) \div C > 0
          /\ PaidIn(res.itxns, USDC, caller) = (u * B) \div C
          /\ res.bal[USDC][App] = B - (u * B) \div C
          /\ res.bal[YT][App] = afterEscrow
          /\ caller # creator => Gain(res, USDC, caller) = (u * B) \div C

\* A claim has been paid, and a holder of yield tokens now faces a share
\* of 0 on an unpaused, matured vault with USDC in it.
C8_Witness ==
  /\ last.op = "claimYtYield"
  /\ shares[last.amount].latest > 0
  /\ bal[USDC][last.caller] >= shares[last.amount].latest
  /\ ~isPaused /\ now > Maturity
  /\ bal[USDC][App] >= 1
  /\ \E caller \in Users : \E u \in ClaimAmounts :
       /\ bal[YT][caller] >= u
       /\ (u * bal[USDC][App]) \div (TokenSupply - bal[YT][App]) = 0

\* Circulating supplies at which the share of a fixed amount is compared.
SupplyPoints == {1000000, 1500000, 2000000, TokenSupply}

\* C9: for a fixed escrow amount and a fixed USDC balance the share does
\* not grow as the circulating supply grows; every share paid is at most
\* the contract's USDC balance at that claim, so the balance never goes
\* negative and what the claimants have been paid never exceeds what has
\* been paid in.
C9_ShareBounded ==
  /\ \A u \in ClaimAmounts : \A c1 \in SupplyPoints : \A c2 \in SupplyPoints :
       c1 <= c2 =>
         UserShare(u, bal[USDC][App], c1).q >= UserShare(u, bal[USDC][App], c2).q
  /\ \A caller \in Accounts : \A g \in ClaimGroups(caller) :
       LET res == claimYtYield(caller, g)
       IN  res.ok =>
             /\ PaidIn(res.itxns, USDC, caller) <= bal[USDC][App]
             /\ res.bal[USDC][App] >= 0
  /\ bal[USDC][App] >= 0
  /\ bal[USDC]["alice"] + bal[USDC]["bob"]
       <= (YieldFund - bal[USDC][creator]) - bal[USDC][App]

\* Claims have drained the contract's USDC to nothing: the claimants hold
\* all that was paid in.
C9_Witness ==
  /\ last.op = "claimYtYield"
  /\ bal[USDC][App] = 0
  /\ bal[USDC][creator] = 0
  /\ bal[USDC]["alice"] + bal[USDC]["bob"] = YieldFund

\* C10 as stated: with no USDC inflow in between, a later claim escrowing
\* the same amount as an earlier one is paid at most the earlier one's share.
C10_LaterShareSmaller ==
  \A u \in ClaimAmounts :
    shares[u].prev > 0 => shares[u].latest <= shares[u].prev

\* C10 amended: with no USDC inflow in between, a later claim escrowing the
\* same amount as an earlier one is paid at least the earlier one's share:
\* the floor leaves the remainder in the contract, so the USDC per
\* circulating yield token does not fall as claims retire supply.
C10_LaterShareNotSmaller ==
  /\ \A u \in ClaimAmounts :
       shares[u].prev > 0 => shares[u].latest >= shares[u].prev
  /\ \A caller \in Users : \A u \in ClaimAmounts :
       LET res == claimYtYield(caller, WellFormed(caller, <<YT>>, u))
       IN  res.ok /\ shares[u].latest > 0 =>
             PaidIn(res.itxns, USDC, caller) >= shares[u].latest

\* Two claims of the same amount have been paid with no inflow between
\* them, the later one more than the earlier.
C10_Witness ==
  /\ last.op = "claimYtYield"
  /\ shares[last.amount].prev > 0
  /\ shares[last.amount].latest > shares[last.amount].prev

(***************************************************************************)
(* Claims about the order book.  As for the vault, what a call does in a   *)
(* state is the result of its handler there: res.ok says whether the call  *)
(* commits, res.orders and res.bal are the state it leaves, res.itxns the  *)
(* inner transfers it issued.                                              *)
(***************************************************************************)
\* The createOrder call of `caller' for an order of template o with id
\* `id', with its well-formed deposit group.
CreateOf(caller, o, id) ==
  createOrder(caller, BookWellFormed(caller, ClaimAsset(o.type), o.qty),
              o.type, o.qty, o.price, id)

\* What createOrder stores for a new order.
Stored(o, id) ==
  [hasValue |-> TRUE, id |-> id, type |-> o.type, qty |-> o.qty,
   price |-> o.price, filled |-> 0]

\* A slot holding an order with an unfilled remainder.
Live(s) == s.hasValue /\ s.filled < s.qty

Funded(caller, o) == bal[ClaimAsset(o.type)][caller] >= o.qty

\* C11: a funded, well-formed createOrder writes slot 1 if slot 1 was never
\* used or has filledQuantity >= quantity, otherwise slot 2 under the same
\* test, otherwise it is rejected; it changes no other slot of any account,
\* so it never overwrites a slot that still has an unfilled remainder (and
\* an account, having two slots, never has more than two such orders).
C11_SlotSelection ==
  \A caller \in Users : \A o \in OrderTemplates : \A id \in OrderIds :
    LET res   == CreateOf(caller, o, id)
        s1    == orders[caller][ORDER_SLOT_1]
        s2    == orders[caller][ORDER_SLOT_2]
        free1 == ~s1.hasValue \/ s1.filled >= s1.qty
        free2 == ~s2.hasValue \/ s2.filled >= s2.qty
    IN  /\ res.ok <=> (Funded(caller, o) /\ (free1 \/ free2))
        /\ res.ok /\ free1 =>
             res.orders = [orders EXCEPT ![caller][ORDER_SLOT_1] = Stored(o, id)]
        /\ res.ok /\ ~free1 =>
             res.orders = [orders EXCEPT ![caller][ORDER_SLOT_2] = Stored(o, id)]
        /\ \A s \in Slots :
             res.ok /\ Live(orders[caller][s]) =>
               res.orders[caller][s] = orders[caller][s]

\* A createOrder has just written slot 2 because slot 1 held a live order;
\* both slots are live now, and the seller's next createOrder, though
\* funded, finds no slot.
C11_Witness ==
  /\ bookLast.op = "createOrder"
  /\ bookLast.slot = ORDER_SLOT_2
  /\ Live(orders[bookLast.seller][ORDER_SLOT_1])
  /\ Live(orders[bookLast.seller][ORDER_SLOT_2])
  /\ \E o \in OrderTemplates :
       /\ Funded(bookLast.seller, o)
       /\ ~CreateOf(bookLast.seller, o, NextOrderId).ok

\* The step is a committed createOrder that wrote slot s of account u.
Reuses(u, s) ==
  /\ created' = created + 1
  /\ bookLast'.op = "createOrder"
  /\ bookLast'.seller = u
  /\ bookLast'.slot = s

\* C12: in every reachable state every used slot has
\* 0 <= filledQuantity <= quantity, and every step other than a createOrder
\* writing the slot leaves the slot's order (id, type, quantity, price) in
\* place and its filledQuantity no smaller than before.
C12_FilledWithinQuantity ==
  /\ [](\A u \in OptedIn : \A s \in Slots :
          orders[u][s].hasValue =>
            /\ 0 <= orders[u][s].filled
            /\ orders[u][s].filled <= orders[u][s].qty)
  /\ [][\A u \in OptedIn : \A s \in Slots :
          \/ Reuses(u, s)
          \/ /\ orders'[u][s].filled >= orders[u][s].filled
             /\ [orders'[u][s] EXCEPT !.filled = 0]
                  = [orders[u][s] EXCEPT !.filled = 0]]_vars

\* An order of 3,000,000 has just been filled and stands at 2,000,000
\* filled, in a slot that an earlier order had used and exhausted.
C12_Witness ==
  /\ bookLast.op = "fillOrder"
  /\ created = 2
  /\ \E u \in OptedIn :
       /\ orders[u][ORDER_SLOT_1].qty = 3000000
       /\ orders[u][ORDER_SLOT_1].filled = 2000000
       /\ ~orders[u][ORDER_SLOT_2].hasValue

\* The payment fillOrder requires for q units of the order in a slot.
PaymentFor(seller, slot, q) ==
  RequiredPayment(q, orders[seller][slot].price).q

\* The fillOrder call of `buyer' for q units of the order in a slot, naming
\* id, with the exactly matching payment staged.
FillOf(buyer, seller, slot, id, q) ==
  fillOrder(buyer,
            BookWellFormed(buyer, PaymentAsset(orders[seller][slot].type),
                           PaymentFor(seller, slot, q)),
            seller, slot, id, q)

\* The groups sent with a fillOrder of q units of a slot: the exact payment,
\* one unit more, and the exact payment in a longer group.
FillGroups(c, u, s, q) ==
  LET exact == BookWellFormed(c, PaymentAsset(orders[u][s].type),
                              PaymentFor(u, s, q))
  IN  {exact, [exact EXCEPT !.txns[1].amount = @ + 1],
       [exact EXCEPT !.size = 3]}

CanPay(buyer, seller, slot, q) ==
  bal[PaymentAsset(orders[seller][slot].type)][buyer]
    >= PaymentFor(seller, slot, q)

\* C13 as stated: while filledQuantity < quantity, a fill of any part q of
\* the remainder with the exactly matching (positive) payment succeeds, and
\* once filledQuantity == quantity every fill is rejected.
C13_AnyPartsFill ==
  \A seller \in OptedIn : \A slot \in Slots : \A buyer \in Users :
    \A q \in FillAmounts :
      LET o   == orders[seller][slot]
          res == FillOf(buyer, seller, slot, o.id, q)
      IN  /\ ( /\ withdrawn = 0
               /\ Live(o)
               /\ q <= o.qty - o.filled
               /\ PaymentFor(seller, slot, q) > 0
               /\ CanPay(buyer, seller, slot, q) ) => res.ok
          /\ (o.hasValue /\ o.filled = o.qty) => ~res.ok

\* C13 amended: while filledQuantity < quantity and before any
\* withdrawFunds, a fill of a part q of the remainder with the exactly
\* matching payment succeeds and adds q to filledQuantity provided
\* q >= 1,000,000; a fill of less than 1,000,000 is rejected whatever the
\* remainder, and once filledQuantity == quantity every fill is rejected.
C13_PartsOfAtLeastMinimumFill ==
  \A seller \in OptedIn : \A slot \in Slots : \A buyer \in Users :
    \A q \in FillAmounts :
      LET o   == orders[seller][slot]
          res == FillOf(buyer, seller, slot, o.id, q)
      IN  /\ ( /\ withdrawn = 0
               /\ Live(o)
               /\ q <= o.qty - o.filled
               /\ q >= 1000000
               /\ CanPay(buyer, seller, slot, q) ) =>
                 /\ res.ok
                 /\ res.orders = [orders EXCEPT ![seller][slot].filled = @ + q]
          /\ q < 1000000 => ~res.ok
          /\ (o.hasValue /\ q > o.qty - o.filled) => ~res.ok
          /\ (o.hasValue /\ o.filled = o.qty) => ~res.ok

\* Three fills of 1,000,000 in a row have filled an order of 3,000,000; a
\* fourth fill, which the buyer could pay, is rejected.
C13_Witness ==
  /\ bookLast.op = "fillOrder"
  /\ bookLast.parts = 3
  /\ orders[bookLast.seller][bookLast.slot].qty = 3000000
  /\ orders[bookLast.seller][bookLast.slot].filled = 3000000
  /\ \E buyer \in Users :
       /\ CanPay(buyer, bookLast.seller, bookLast.slot, 1000000)
       /\ bal[USDC][buyer] > 0
       /\ ~FillOf(buyer, bookLast.seller, bookLast.slot,
                  orders[bookLast.seller][bookLast.slot].id, 1000000).ok

\* floor(q * p / 1,000,000), from the thousands and units of q and p.
FloorScaled(q, p) ==
  (q \div 1000) * (p \div 1000)
  + (((q \div 1000) * (p % 1000) + (q % 1000) * (p \div 1000)
      + ((q % 1000) * (p % 1000)) \div 1000) \div 1000)

\* C14: a committed fillOrder for fillQty units of an order with price p
\* has staged, from the buyer to the contract, exactly
\* P = floor(fillQty * p / 1,000,000) > 0 of the underlying for a PT order
\* and of USDC for a YT order; it pays floor(P*50/10000) of that token to
\* the admin and the rest of P to the seller, so the contract's balance of
\* the payment token is unchanged; it delivers fillQty of the escrowed
\* token to the buyer and adds fillQty to the slot's filledQuantity.  On an
\* order of 2,000,000 at price 1,500,000 a fill of 1,000,000 pays 1,500,000:
\* 7,500 to the admin and 1,492,500 to the seller.
C14_FillAccounting ==
  \A buyer \in Users : \A g \in PaymentGroups(buyer) :
    \A seller \in OptedIn : \A slot \in Slots :
      orders[seller][slot].hasValue =>
        \A q \in FillAmounts :
          LET o     == orders[seller][slot]
              res   == fillOrder(buyer, g, seller, slot, o.id, q)
              P     == FloorScaled(q, o.price)
              fee   == (P * 50) \div 10000
              pay   == IF o.type = 0 THEN ALPHA ELSE USDC
              claim == IF o.type = 0 THEN PT ELSE YT
          IN  res.ok =>
                /\ P > 0
                /\ g.txns[1] = Xfer(pay, buyer, Book, P)
                /\ PaidIn(res.itxns, pay, emergencyAdmin) = fee
                /\ PaidIn(res.itxns, pay, seller) = P - fee
                /\ PaidIn(res.itxns, claim, buyer) = q
                /\ Len(res.itxns) = IF fee > 0 THEN 3 ELSE 2
                /\ res.bal[pay][Book] = bal[pay][Book]
                /\ res.bal[pay][emergencyAdmin] = bal[pay][emergencyAdmin] + fee
                /\ res.bal[pay][seller] =
                     bal[pay][seller] + (P - fee) - (IF buyer = seller THEN P ELSE 0)
                /\ res.bal[claim][Book] = bal[claim][Book] - q
                /\ res.bal[claim][buyer] = bal[claim][buyer] + q
                /\ res.orders = [orders EXCEPT ![seller][slot].filled = @ + q]
                /\ (o.qty = 2000000 /\ o.price = 1500000 /\ q = 1000000) =>
                     /\ g.txns[1].amount = 1500000
                     /\ PaidIn(res.itxns, ALPHA, emergencyAdmin) = 7500
                     /\ PaidIn(res.itxns, ALPHA, seller) = 1492500
                     /\ res.orders[seller][slot].filled = o.filled + 1000000

\* The first fill of a PT order of 2,000,000 at price 1,500,000 was for
\* 1,000,000: the seller holds 1,492,500 and the admin 7,500 of the
\* underlying, and filledQuantity is 1,000,000.
C14_Witness ==
  /\ bookLast.op = "fillOrder"
  /\ created = 1
  /\ orders[bookLast.seller][bookLast.slot].type = ORDER_TYPE_PT
  /\ orders[bookLast.seller][bookLast.slot].qty = 2000000
  /\ orders[bookLast.seller][bookLast.slot].price = 1500000
  /\ orders[bookLast.seller][bookLast.slot].filled = 1000000
  /\ bal[ALPHA][bookLast.seller] = 1492500
  /\ bal[ALPHA][emergencyAdmin] = 7500
  /\ bal[ALPHA][Book] = 0
  /\ bal[PT][Book] = 1000000

\* A slot whose order is exhausted: fully filled or canceled.
Exhausted(s) == s.hasValue /\ s.filled = s.qty

\* C15: whenever an account has a slot with filledQuantity == quantity, its
\* next funded, well-formed createOrder commits: it stores the new id, type,
\* quantity and price with filledQuantity 0 in a slot that was never used or
\* was exhausted, and changes no other slot.
C15_ExhaustedSlotReused ==
  \A caller \in Users : \A o \in OrderTemplates : \A id \in OrderIds :
    LET res == CreateOf(caller, o, id)
    IN  ( /\ \E s \in Slots : Exhausted(orders[caller][s])
          /\ Funded(caller, o) ) =>
          /\ res.ok
          /\ \E s \in Slots :
               /\ ~Live(orders[caller][s])
               /\ res.orders = [orders EXCEPT ![caller][s] = Stored(o, id)]
               /\ res.orders[caller][s].filled = 0

\* A createOrder has just reused slot 1, whose earlier order had been
\* filled (the seller was paid for it): the slot holds the new order with
\* nothing filled.
C15_Witness ==
  /\ bookLast.op = "createOrder"
  /\ bookLast.slot = ORDER_SLOT_1
  /\ created = 2
  /\ ~orders[bookLast.seller][ORDER_SLOT_2].hasValue
  /\ orders[bookLast.seller][ORDER_SLOT_1].id = 2
  /\ orders[bookLast.seller][ORDER_SLOT_1].filled = 0
  /\ bal[ALPHA][bookLast.seller] + bal[USDC][bookLast.seller] > 0

\* The single-transaction group of a cancel, and a group one longer.
CancelGroups == {NoGroup, [NoGroup EXCEPT !.size = 2]}

\* C16: a committed cancelOrder(seller, slot) was sent by the seller or the
\* admin for a slot with quantity - filledQuantity > 0; it returns exactly
\* that remainder of the order's escrowed token to the seller and sets
\* filledQuantity = quantity, leaving the slot's id, type, quantity and
\* price and every other slot as they were.  On a slot so exhausted every
\* cancelOrder and every fillOrder is rejected.
C16_CancelReturnsRemainder ==
  \A seller \in OptedIn : \A slot \in Slots :
    LET o     == orders[seller][slot]
        rem   == o.qty - o.filled
        claim == IF o.type = 0 THEN PT ELSE YT
    IN  /\ \A caller \in BookCallers : \A g \in CancelGroups :
             LET res == cancelOrder(caller, g, seller, slot)
             IN  /\ res.ok =>
                      /\ caller = seller \/ caller = emergencyAdmin
                      /\ g.size = 1
                      /\ o.hasValue
                      /\ rem > 0
                      /\ res.itxns = <<Xfer(claim, Book, seller, rem)>>
                      /\ res.bal[claim][seller] = bal[claim][seller] + rem
                      /\ res.bal[claim][Book] = bal[claim][Book] - rem
                      /\ res.orders = [orders EXCEPT ![seller][slot].filled = o.qty]
                 /\ Exhausted(o) => ~res.ok
        /\ Exhausted(o) =>
             \A buyer \in Users : \A q \in FillAmounts :
               \A g \in FillGroups(buyer, seller, slot, q) :
                 \A id \in OrderIds :
                   ~fillOrder(buyer, g, seller, slot, id, q).ok

\* The admin has just canceled a seller's partly filled order: the slot is
\* exhausted with its order still stored, and the contract holds none of
\* the order's token.
C16_Witness ==
  /\ bookLast.op = "cancelOrder"
  /\ bookLast.caller = emergencyAdmin
  /\ bookLast.caller # bookLast.seller
  /\ created = 1
  /\ bal[ALPHA][bookLast.seller] + bal[USDC][bookLast.seller] > 0
  /\ Exhausted(orders[bookLast.seller][bookLast.slot])
  /\ orders[bookLast.seller][bookLast.slot].id = 1
  /\ bal[PT][Book] + bal[YT][Book] = 0

\* The refunds of a batch cancel: the remainder of each live slot, slot 1
\* first.
BatchRefunds(seller) ==
  LET refund(s) ==
        IF Live(orders[seller][s])
        THEN <<Xfer(IF orders[seller][s].type = 0 THEN PT ELSE YT, Book, seller,
                    orders[seller][s].qty - orders[seller][s].filled)>>
        ELSE <<>>
  IN  refund(ORDER_SLOT_1) \o refund(ORDER_SLOT_2)

\* C17: before any withdrawFunds, cancelBothOrders(seller) sent by the
\* seller or the admin commits if and only if at least one of the seller's
\* slots has an outstanding remainder, also when the other slot is exhausted
\* or was never used; when it commits, every slot that had a remainder has
\* it refunded to the seller and is exhausted, and nothing else changes.
C17_BatchCancel ==
  \A seller \in OptedIn : \A caller \in {seller, emergencyAdmin} :
    LET res == cancelBothOrders(caller, NoGroup, seller)
    IN  withdrawn = 0 =>
          /\ res.ok <=> \E s \in Slots : Live(orders[seller][s])
          /\ res.ok =>
               /\ res.itxns = BatchRefunds(seller)
               /\ res.orders =
                    [orders EXCEPT ![seller] =
                       [s \in Slots |->
                          IF Live(orders[seller][s])
                          THEN [orders[seller][s] EXCEPT
                                  !.filled = orders[seller][s].qty]
                          ELSE orders[seller][s]]]

\* C18: every fillOrder whose orderId differs from the id stored in the
\* named slot of the named seller, though it stages the payment the slot's
\* order asks for, is rejected and leaves every slot and every balance as
\* it was; so once a slot has been reused under another
\* id, no fill naming the earlier order's id commits.
C18_StaleIdRejected ==
  \A seller \in OptedIn : \A slot \in Slots : \A q \in FillAmounts :
    LET asset == PaymentAsset(orders[seller][slot].type)
        due   == PaymentFor(seller, slot, q)
    IN  \A buyer \in Users :
        \A id \in (OrderIds \cup {0}) \ {orders[seller][slot].id} :
          LET res == fillOrder(buyer, BookWellFormed(buyer, asset, due),
                               seller, slot, id, q)
          IN  /\ ~res.ok
              /\ res.orders = orders
              /\ res.bal = bal

\* Slot 1 has been reused: it holds the live order with id 2 where the
\* order with id 1 was.  A fill naming id 2 with the matching payment
\* would commit; the same fill naming id 1 is rejected.
C18_Witness ==
  /\ created = 2
  /\ bookLast.op = "createOrder"
  /\ bookLast.slot = ORDER_SLOT_1
  /\ orders[bookLast.seller][ORDER_SLOT_1].id = 2
  /\ ~orders[bookLast.seller][ORDER_SLOT_2].hasValue
  /\ \E buyer \in Users :
       /\ FillOf(buyer, bookLast.seller, ORDER_SLOT_1, 2, 1000000).ok
       /\ ~FillOf(buyer, bookLast.seller, ORDER_SLOT_1, 1, 1000000).ok

\* C19: a committed withdrawFunds was sent by the creator or the admin at a
\* time no earlier than the deployment time plus 31,536,000 seconds, and
\* pays the amount to its sender; before that time every withdrawFunds is
\* rejected and every balance, the escrow of the orders included, is as it
\* was.
C19_WithdrawAfterLock ==
  \A caller \in BookCallers : \A g \in CancelGroups :
    \A assetType \in 0..4 : \A amount \in WithdrawAmounts \cup {0} :
      LET res == withdrawFunds(caller, g, assetType, amount)
      IN  /\ res.ok =>
               /\ caller = creatorAddress \/ caller = emergencyAdmin
               /\ now >= BookDeploy + 31536000
               /\ amount > 0
               /\ res.itxns = <<Xfer(WithdrawAsset(assetType), Book, caller, amount)>>
               /\ res.orders = orders
          /\ now < BookDeploy + 31536000 =>
               /\ ~res.ok
               /\ res.bal = bal

\* At exactly one year after deployment the admin has withdrawn 1,000,000
\* units that were the escrow of a live order.
C19_Witness ==
  /\ bookLast.op = "withdrawFunds"
  /\ bookLast.caller = emergencyAdmin
  /\ now = BookDeploy + 31536000
  /\ withdrawn = 1
  /\ bal[PT][emergencyAdmin] + bal[YT][emergencyAdmin] = 1000000
  /\ \E u \in OptedIn : \E s \in Slots :
       /\ Live(orders[u][s])
       /\ bal[ClaimAsset(orders[u][s].type)][Book]
            < orders[u][s].qty - orders[u][s].filled

\* A rejected vault call, and a rejected order-book call, keep nothing.
VaultKept(res) ==
  ~res.ok => /\ res.locked = totalAlphaLocked
             /\ res.paused = isPaused
             /\ res.bal = bal
             /\ res.itxns = <<>>

BookKept(res) ==
  ~res.ok => /\ res.orders = orders
             /\ res.bal = bal
             /\ res.itxns = <<>>

Product(w, n1, n2) == mulw(w, n1, n2)

\* The true quotient of n1 * n2 by d fits a word iff n1 * n2 < w * d, that
\* is iff d > 0 and the high word of the product is below d.
QuotientFits(w, n1, n2, d) == d > 0 /\ Product(w, n1, n2).hi < d

\* q = floor(n1 * n2 / d): q * d <= n1 * n2 < q * d + d, on the two words
\* of both products.
IsFloor(w, n1, n2, d, q) ==
  LET P == Product(w, n1, n2)
      Q == Product(w, q, d)
      diff == IF P.hi = Q.hi THEN P.lo - Q.lo ELSE (w - Q.lo) + P.lo
  IN  /\ P.hi - Q.hi \in {0, 1}
      /\ diff >= 0
      /\ diff < d

\* C21: a mulDivFloor(n1, n2, d) that has run succeeded iff the true
\* quotient floor(n1 * n2 / d) fits a word (with d = 0 there is none, and
\* the call fails), and what it returned is that quotient: never a wrapped
\* or truncated value.  Where n1 * n2 is within TLC's integers the quotient
\* is computed directly as well.
C21_MulDivFloorExact ==
  md.done =>
    /\ md.ok <=> QuotientFits(md.w, md.n1, md.n2, md.d)
    /\ md.ok => /\ md.q \in 0..(md.w - 1)
                /\ IsFloor(md.w, md.n1, md.n2, md.d, md.q)
    /\ (md.d > 0 /\ (md.n1 = 0 \/ md.n2 <= 2147483647 \div md.n1)) =>
         /\ md.ok <=> (md.n1 * md.n2) \div md.d < md.w
         /\ md.ok => md.q = (md.n1 * md.n2) \div md.d

\* mulDivFloor(1,500,000, 2,030,000, 10,000) has run at the model's word
\* width: the product needs two words and the quotient, 304,500,000, one.
C21_Witness ==
  /\ md.done
  /\ md.w = Word
  /\ md.n1 = 1500000
  /\ md.n2 = UserAlpha
  /\ md.d = BPS_DIVISOR
  /\ Product(md.w, md.n1, md.n2).hi > 0
  /\ md.ok
  /\ md.q = 150 * UserAlpha

\* The latest call was sent by the account itself, or is a cancel sent by
\* the admin.
ByOwnerOrAdminCancel(u, call) ==
  \/ call.caller = u
  \/ /\ call.caller = emergencyAdmin
     /\ call.op \in {"cancelOrder", "cancelBothOrders"}

\* C22 as stated: a step that changes a field of an account's slots is a
\* call sent by that account, or a cancel sent by the admin.
C22_SlotsChangedByOwnerOrAdmin ==
  [][\A u \in OptedIn :
       orders'[u] # orders[u] => ByOwnerOrAdminCancel(u, bookLast')]_vars

\* C22: a step that changes a field of an account's slots is a call sent
\* by that account, a cancel sent by the admin, or a fillOrder naming the
\* account as the seller, sent by any account; the fillOrder adds the
\* filled quantity to the filledQuantity of the one slot and changes
\* nothing else of the slots.
C22_SlotsChangedByOwnerAdminOrFill ==
  [][\A u \in OptedIn :
       orders'[u] # orders[u] =>
         \/ ByOwnerOrAdminCancel(u, bookLast')
         \/ /\ bookLast'.op = "fillOrder"
            /\ bookLast'.seller = u
            /\ \E s \in Slots : \E q \in FillAmounts :
                 /\ bookLast'.slot = s
                 /\ orders' = [orders EXCEPT ![u][s].filled = @ + q]]_vars

\* bob, who is not the admin, has just filled an order of alice: her
\* slot's filledQuantity is what his call made it.
C22_Witness ==
  /\ bookLast.op = "fillOrder"
  /\ bookLast.caller = "bob"
  /\ bookLast.seller = "alice"
  /\ bookLast.caller # emergencyAdmin
  /\ orders["alice"][bookLast.slot].filled > 0

\* The vault's balances, token by token.
VaultBalances(b) == [a \in Assets |-> b[a][App]]

\* While the flag stays set, a step leaves totalAlphaLocked and the vault's
\* balances alone, or is the sweep.
PausedStepKeeps ==
  \/ /\ totalAlphaLocked' = totalAlphaLocked
     /\ VaultBalances(bal') = VaultBalances(bal)
  \/ last'.op = "withdrawAllBalances"

\* C23 as stated: while the pause flag is set, totalAlphaLocked and every
\* balance of the vault stay as they are until the flag is cleared or the
\* sweep runs.
C23_PausedVaultConstant ==
  [][(isPaused /\ isPaused') => PausedStepKeeps]_vars

\* C23: while the pause flag is set, every mintTokens, redeemTokens,
\* redeemPtMature and claimYtYield is rejected; totalAlphaLocked and the
\* vault's balances stay as they are until the flag is cleared or the sweep
\* runs, but for the USDC paid in to the vault by a plain transfer, which
\* adds to its USDC balance and to nothing else.
C23_PausedRejectsAndKeeps ==
  /\ [](isPaused =>
          \A c \in Accounts :
            /\ \A g \in Groups(c, <<ALPHA>>, Deposits) : ~mintTokens(c, g).ok
            /\ \A g \in Groups(c, <<PT, YT>>, RedeemAmounts) :
                 ~redeemTokens(c, g).ok
            /\ \A g \in Groups(c, <<PT>>, RedeemAmounts) :
                 ~redeemPtMature(c, g).ok
            /\ \A g \in Groups(c, <<YT>>, ClaimAmounts) :
                 ~claimYtYield(c, g).ok)
  /\ [][(isPaused /\ isPaused') =>
          \/ PausedStepKeeps
          \/ /\ last'.op = "depositYield"
             /\ totalAlphaLocked' = totalAlphaLocked
             /\ bal'[USDC][App] > bal[USDC][App]
             /\ \A a \in Assets \ {USDC} : bal'[a][App] = bal[a][App]]_vars

\* The vault is paused after maturity while alice holds 1,000,000 PT and
\* as many YT, the vault holds that much of the underlying and USDC to
\* share: nothing but the flag stands against her redeemPtMature and her
\* claimYtYield.
C23_Witness ==
  /\ isPaused
  /\ Matured
  /\ bal[PT]["alice"] >= 1000000
  /\ bal[YT]["alice"] >= 1000000
  /\ totalAlphaLocked >= 1000000
  /\ bal[ALPHA][App] >= 1000000
  /\ bal[USDC][App] >= 1

\* What a committed call adds to totalAlphaLocked and to the vault's
\* balance of the underlying.
LockedGain(res) == res.locked - totalAlphaLocked
ReserveGain(res) == res.bal[ALPHA][App] - bal[ALPHA][App]

\* C24: as long as withdrawAllBalances has not succeeded, the vault's
\* balance of the underlying is at least totalAlphaLocked, and equal to it
\* as nothing but the calls moves the underlying; a committed mintTokens
\* adds the deposit less the fee to both, and a committed redeemTokens or
\* redeemPtMature takes the redeemed amount from both.
C24_ReserveCoversLocked ==
  ~swept =>
    /\ bal[ALPHA][App] >= totalAlphaLocked
    /\ bal[ALPHA][App] = totalAlphaLocked
    /\ \A c \in Users :
         /\ \A g \in Groups(c, <<ALPHA>>, Deposits) :
              LET res == mintTokens(c, g)
              IN  res.ok =>
                    /\ LockedGain(res) = ReserveGain(res)
                    /\ LockedGain(res) =
                         g.txns[1].amount - PaidIn(res.itxns, ALPHA, creator)
                    /\ LockedGain(res) > 0
         /\ \A g \in Groups(c, <<PT, YT>>, RedeemAmounts) :
              LET res == redeemTokens(c, g)
              IN  res.ok =>
                    /\ LockedGain(res) = ReserveGain(res)
                    /\ LockedGain(res) = 0 - g.txns[1].amount
         /\ \A g \in Groups(c, <<PT>>, RedeemAmounts) :
              LET res == redeemPtMature(c, g)
              IN  res.ok =>
                    /\ LockedGain(res) = ReserveGain(res)
                    /\ LockedGain(res) = 0 - g.txns[1].amount

\* Two mints and then redemptions, the latest a redeemPtMature, with no
\* sweep: the vault still holds underlying, as much as totalAlphaLocked.
C24_Witness ==
  /\ ~swept
  /\ mints = 2
  /\ ptReturned > 0
  /\ last.op = "redeemPtMature"
  /\ totalAlphaLocked > 0
  /\ bal[ALPHA][App] = totalAlphaLocked
  /\ bal[ALPHA][creator] > 0

\* The remainders of the live orders of one type: quantity less
\* filledQuantity, over every slot of every account.
RECURSIVE SumOver(_, _)
SumOver(f, S) ==
  IF S = {} THEN 0
  ELSE LET x == CHOOSE y \in S : TRUE
       IN  f[x] + SumOver(f, S \ {x})

Outstanding(orderType) ==
  SumOver([x \in OptedIn \X Slots |->
             LET o == orders[x[1]][x[2]]
             IN  IF o.hasValue /\ o.type = orderType THEN o.qty - o.filled
                 ELSE 0],
          OptedIn \X Slots)

\* C25: as long as withdrawFunds has not succeeded, the order book holds at
\* least the outstanding remainders of the PT orders in PT and of the YT
\* orders in YT (exactly them, as nothing else sends it claim tokens); so
\* a cancelOrder by the seller of a live order commits, and so does a
\* fillOrder of an order that is fillable and exactly paid for by a buyer
\* who holds the payment.
C25_EscrowCoversOrders ==
  withdrawn = 0 =>
    /\ bal[PT][Book] >= Outstanding(ORDER_TYPE_PT)
    /\ bal[YT][Book] >= Outstanding(ORDER_TYPE_YT)
    /\ bal[PT][Book] = Outstanding(ORDER_TYPE_PT)
    /\ bal[YT][Book] = Outstanding(ORDER_TYPE_YT)
    /\ \A u \in OptedIn : \A s \in Slots :
         Live(orders[u][s]) =>
           /\ cancelOrder(u, NoGroup, u, s).ok
           /\ \A b \in Users : \A q \in FillAmounts :
                (Fillable(u, s, orders[u][s].id, q) /\ CanPay(b, u, s, q)) =>
                  FillOf(b, u, s, orders[u][s].id, q).ok

\* Both slots of a seller hold live orders, a PT order partly filled and a
\* YT order, with no withdrawal: the book holds exactly their remainders.
C25_Witness ==
  /\ withdrawn = 0
  /\ \E u \in OptedIn :
       /\ Live(orders[u][ORDER_SLOT_1])
       /\ Live(orders[u][ORDER_SLOT_2])
       /\ orders[u][ORDER_SLOT_1].type # orders[u][ORDER_SLOT_2].type
       /\ \E s \in Slots : orders[u][s].filled > 0
  /\ bal[PT][Book] > 0
  /\ bal[YT][Book] > 0

\* The amounts a holder may ask to redeem: the least, the whole holding,
\* and amounts next to them and between them.
RedeemChoices(c) ==
  {a \in {1000000, 1000001, 1015229, bal[PT][c] - 1, bal[PT][c]} :
     a >= 1000000 /\ a <= bal[PT][c]}

\* C26: after maturity, with the vault unpaused and no withdrawAllBalances
\* so far, a redeemPtMature by a holder of PT for any amount a with
\* 1,000,000 <= a <= the holding commits: it takes a PT from the holder,
\* pays a of the underlying to the holder and lowers totalAlphaLocked by a,
\* whatever mints, redemptions and claims came before.
C26_MaturePtRedeemable ==
  (now > Maturity /\ ~isPaused /\ ~swept) =>
    \A c \in Users : \A a \in RedeemChoices(c) :
      LET res == redeemPtMature(c, WellFormed(c, <<PT>>, a))
      IN  /\ res.ok
          /\ totalAlphaLocked >= a
          /\ res.locked = totalAlphaLocked - a
          /\ res.itxns = <<Itxn(ALPHA, c, a)>>
          /\ res.bal[ALPHA][c] = bal[ALPHA][c] + a
          /\ res.bal[PT][c] = bal[PT][c] - a

\* After maturity bob has just redeemed PT, a yield claim has been made,
\* and alice, who minted, still holds more than 1,000,000 PT in the
\* unpaused, unswept vault.
C26_Witness ==
  /\ now > Maturity
  /\ ~isPaused
  /\ ~swept
  /\ mints = 2
  /\ last.op = "redeemPtMature"
  /\ last.caller = "bob"
  /\ bal[PT]["alice"] > 1000000
  /\ bal[USDC]["alice"] + bal[USDC]["bob"] > 0

====
